---- MODULE Spec2Model ----
(***************************************************************************)
(* Vertex sources of a draw call (glium, src/vertex/mod.rs).               *)
(*                                                                         *)
(* A caller builds one source or a tuple of up to seven sources, hands it  *)
(* to draw, draw calls MultiVerticesSource::iter on it and scans the       *)
(* yielded VerticesSource values, checking the lengths of the per-vertex   *)
(* and of the per-instance sources.                                        *)
(*                                                                         *)
(* The conversions and the iteration are translated from mod.rs.  Buffer   *)
(* slices (vertex/buffer.rs) and the length checks of draw are not part of *)
(* mod.rs; they follow the module documentation and the specification.     *)
(***************************************************************************)
EXTENDS Integers, Sequences, FiniteSets

VARIABLES
    args,             \* the sources of the draw call, left to right
    form,             \* "bare": a single value is passed, "tuple": a tuple
    pc,               \* "build", "scan", "done", "panicked"
    it,               \* the iterator returned by iter()
    yielded,          \* the variants next() has returned so far
    polls,            \* calls of next() that returned None
    last,             \* what the most recent call of next() returned
    mode,             \* the index specification of the draw call
    vertices_count,   \* length of the per-vertex sources seen so far
    instances_count,  \* length of the per-instance sources seen so far
    errors,           \* the failures the length checks have raised
    refused           \* the most recent slice request that slice() refused

vars == <<args, form, pc, it, yielded, polls, last, mode,
          vertices_count, instances_count, errors, refused>>

(***************************************************************************)
(* Bounds and constants                                                    *)
(***************************************************************************)

\* impl_for_tuple!(A, B, C, D, E, F, G): tuples of up to seven sources
MaxArity == 7

\* largest tuple of the draw calls whose lengths are checked
DrawArity == 4

\* calls of next() after the first None
MaxPolls == 2

None == <<>>

Some(x) == <<x>>

\* the vertex buffers of the module documentation's example
Buffers == {"vertex_buffer", "vertex_buffer2"}

element_count(b) == IF b = "vertex_buffer" THEN 10 ELSE 12

\* slice bounds that are tried; 14 exceeds every buffer
Bounds == {0, 5, 10, 12, 14}

Lens == {0, 5, 7, 10, 12}

IndexModes == {"NoIndices", "Indexed"}

(***************************************************************************)
(* VerticesSource                                                          *)
(***************************************************************************)

VertexBuffer_swapped(buf, off, len, per_instance) ==
    [tag |-> "VertexBuffer", buf |-> buf, off |-> len, len |-> off,
     per_instance |-> per_instance]

\* VertexBuffer(&VertexBufferAny, offset, length, per instance)
VertexBuffer(buf, off, len, per_instance) ==
    [tag |-> "VertexBuffer", buf |-> buf, off |-> off, len |-> len,
     per_instance |-> per_instance]

Marker(len, per_instance) ==
    [tag |-> "Marker", len |-> len, per_instance |-> per_instance]

\* the outcome of unreachable!(): the conversion panics
Unreachable == [tag |-> "unreachable"]

(***************************************************************************)
(* The objects that can be used as vertex sources                          *)
(***************************************************************************)

\* &VertexBuffer
BufferRef(b) == [kind |-> "VertexBufferRef", buf |-> b]

\* VertexBufferSlice / VertexBufferAnySlice
BufferSlice(b, a, e) ==
    [kind |-> "VertexBufferSlice", buf |-> b, start |-> a, end |-> e]

\* vertex_buffer.slice(a .. e): None when the range leaves the buffer
slice(b, a, e) ==
    IF a <= e /\ e <= element_count(b) THEN Some(BufferSlice(b, a, e)) ELSE None

PerInstance(s) == [kind |-> "PerInstance", inner |-> s]

\* slice.per_instance()
per_instance(s) == PerInstance(s)

EmptyVertexAttributes(len) == [kind |-> "EmptyVertexAttributes", len |-> len]

EmptyInstanceAttributes(len) == [kind |-> "EmptyInstanceAttributes", len |-> len]

\* a VerticesSource the caller built itself
Built(v) == [kind |-> "VerticesSource", v |-> v]

(***************************************************************************)
(* IntoVerticesSource                                                      *)
(***************************************************************************)

VerticesSource_into_vertices_source_reset(self) ==
    IF self.v.tag = "VertexBuffer"
    THEN VertexBuffer(self.v.buf, self.v.off, self.v.len, FALSE)
    ELSE Marker(self.v.len, FALSE)

VerticesSource_into_vertices_source(self) == self.v

EmptyVertexAttributes_into_vertices_source_instance(self) ==
    Marker(self.len, TRUE)

EmptyVertexAttributes_into_vertices_source(self) ==
    Marker(self.len, FALSE)

EmptyInstanceAttributes_into_vertices_source(self) ==
    Marker(self.len, TRUE)

VertexBuffer_into_vertices_source(self) ==
    VertexBuffer(self.buf, 0, element_count(self.buf), FALSE)

VertexBufferSlice_into_vertices_source(self) ==
    VertexBuffer(self.buf, self.start, self.end - self.start, FALSE)

\* the match of PerInstance::into_vertices_source on the converted slice
PerInstance_match_swapped(v) ==
    IF v.tag = "VertexBuffer" /\ v.per_instance = FALSE
    THEN VertexBuffer(v.buf, v.len, v.off, TRUE)
    ELSE Unreachable

PerInstance_match_true(v) ==
    IF v.tag = "VertexBuffer" /\ v.per_instance = TRUE
    THEN VertexBuffer(v.buf, v.off, v.len, TRUE)
    ELSE Unreachable

PerInstance_match(v) ==
    IF v.tag = "VertexBuffer" /\ v.per_instance = FALSE
    THEN VertexBuffer(v.buf, v.off, v.len, TRUE)
    ELSE Unreachable

PerInstance_into_vertices_source(self) ==
    PerInstance_match(VertexBufferSlice_into_vertices_source(self.inner))

into_vertices_source(x) ==
    CASE x.kind = "VerticesSource" -> VerticesSource_into_vertices_source(x)
      [] x.kind = "EmptyVertexAttributes" -> EmptyVertexAttributes_into_vertices_source(x)
      [] x.kind = "EmptyInstanceAttributes" -> EmptyInstanceAttributes_into_vertices_source(x)
      [] x.kind = "PerInstance" -> PerInstance_into_vertices_source(x)
      [] x.kind = "VertexBufferRef" -> VertexBuffer_into_vertices_source(x)
      [] x.kind = "VertexBufferSlice" -> VertexBufferSlice_into_vertices_source(x)

(***************************************************************************)
(* MultiVerticesSource                                                     *)
(***************************************************************************)

\* std::option::IntoIter, as built by Some(x).into_iter()
IntoIter(opt) == [type |-> "IntoIter", inner |-> opt]

\* std::iter::Chain, as built by a.chain(b)
Chain(a, b) == [type |-> "Chain", a |-> a, b |-> b]

IntoIter_next_keep(i) == [item |-> i.inner, it |-> i]

\* option::IntoIter::next takes the value out of the option
IntoIter_next(i) == [item |-> i.inner, it |-> IntoIter(None)]

RECURSIVE Iterator_next(_)

Chain_next_front_only(c) ==
    LET ra == Iterator_next(c.a)
    IN  [item |-> ra.item, it |-> Chain(ra.it, c.b)]

\* Chain::next: the first iterator until it is exhausted, then the second
Chain_next(c) ==
    LET ra == Iterator_next(c.a)
    IN  IF ra.item # None
        THEN [item |-> ra.item, it |-> Chain(ra.it, c.b)]
        ELSE LET rb == Iterator_next(c.b)
             IN  [item |-> rb.item, it |-> Chain(ra.it, rb.it)]

Iterator_next(i) ==
    IF i.type = "IntoIter" THEN IntoIter_next(i) ELSE Chain_next(i)

\* impl MultiVerticesSource for T where T: IntoVerticesSource
single_iter(self) == IntoIter(Some(into_vertices_source(self)))

\* impl_for_tuple!($t): the tuple ($t,)
tuple1_iter(self) == IntoIter(Some(into_vertices_source(self[1])))

chain_dropped(t1, rest) == IntoIter(Some(into_vertices_source(t1)))

chain_reversed(t1, rest) ==
    Chain(rest, IntoIter(Some(into_vertices_source(t1))))

\* Some($t1.into_vertices_source()).into_iter().chain(rest)
chain_first(t1, rest) ==
    Chain(IntoIter(Some(into_vertices_source(t1))), rest)

RECURSIVE tuple_iter(_)

\* impl_for_tuple!(A, B, C, D, E, F, G)
tuple_iter(self) ==
    IF Len(self) = 1
    THEN tuple1_iter(self)
    ELSE chain_first(Head(self), tuple_iter(Tail(self)))

iter(f, a) == IF f = "bare" THEN single_iter(a[1]) ELSE tuple_iter(a)

\* whether a conversion of the draw call's sources reaches unreachable!()
Panics(a) == \E i \in 1..Len(a) : into_vertices_source(a[i]) = Unreachable

(***************************************************************************)
(* The length checks of draw                                               *)
(***************************************************************************)

\* one source of the scan: a per-instance source is compared with the
\* instance count, a per-vertex source with the vertex count when the draw
\* call has no indices
check_source(v, m, vc, ic, errs) ==
    IF v.per_instance
    THEN [vertices_count |-> vc,
          instances_count |-> IF ic = None THEN Some(v.len) ELSE ic,
          errors |-> IF ic # None /\ ic # Some(v.len)
                     THEN errs \cup {"InstancesCountMismatch"} ELSE errs]
    ELSE IF m = "NoIndices"
    THEN [vertices_count |-> IF vc = None THEN Some(v.len) ELSE vc,
          instances_count |-> ic,
          errors |-> IF vc # None /\ vc # Some(v.len)
                     THEN errs \cup {"VerticesSourcesLengthMismatch"} ELSE errs]
    ELSE [vertices_count |-> vc, instances_count |-> ic, errors |-> errs]

(***************************************************************************)
(* The draw call                                                           *)
(***************************************************************************)

Init ==
    /\ args = <<>>
    /\ form = "tuple"
    /\ pc = "build"
    /\ it = IntoIter(None)
    /\ yielded = <<>>
    /\ polls = 0
    /\ last = None
    /\ mode = "Indexed"
    /\ vertices_count = None
    /\ instances_count = None
    /\ errors = {}
    /\ refused = None

\* the caller adds one source to the tuple it is building
Take(x, cap) ==
    /\ pc = "build"
    /\ Len(args) < cap
    /\ args' = Append(args, x)
    /\ UNCHANGED <<form, pc, it, yielded, polls, last, mode,
                   vertices_count, instances_count, errors>>

TakeBuffer(b, cap) ==
    /\ Take(BufferRef(b), cap)
    /\ UNCHANGED refused

\* vertex_buffer.slice(a .. e).unwrap(): no source when slice returns None
TakeSlice(b, a, e, cap) ==
    LET r == slice(b, a, e)
    IN  /\ pc = "build"
        /\ Len(args) < cap
        /\ refused' = IF r = None THEN Some([buf |-> b, start |-> a, end |-> e])
                      ELSE refused
        /\ args' = IF r = None THEN args ELSE Append(args, r[1])
        /\ UNCHANGED <<form, pc, it, yielded, polls, last, mode,
                       vertices_count, instances_count, errors>>

\* vertex_buffer.slice(a .. e).unwrap().per_instance()
TakePerInstance(b, a, e, cap) ==
    LET r == slice(b, a, e)
    IN  /\ pc = "build"
        /\ Len(args) < cap
        /\ refused' = IF r = None THEN Some([buf |-> b, start |-> a, end |-> e])
                      ELSE refused
        /\ args' = IF r = None THEN args ELSE Append(args, per_instance(r[1]))
        /\ UNCHANGED <<form, pc, it, yielded, polls, last, mode,
                       vertices_count, instances_count, errors>>

TakeEmptyVertex(len, cap) ==
    /\ Take(EmptyVertexAttributes(len), cap)
    /\ UNCHANGED refused

TakeEmptyInstance(len, cap) ==
    /\ Take(EmptyInstanceAttributes(len), cap)
    /\ UNCHANGED refused

TakeBuilt(v, cap) ==
    /\ Take(Built(v), cap)
    /\ UNCHANGED refused

\* frame.draw(sources, indices, ...): iter() converts every source
Draw(m, f) ==
    /\ pc = "build"
    /\ Len(args) >= 1
    /\ f = "bare" => Len(args) = 1
    /\ form' = f
    /\ mode' = m
    /\ IF Panics(args)
       THEN pc' = "panicked" /\ UNCHANGED it
       ELSE pc' = "scan" /\ it' = iter(f, args)
    /\ UNCHANGED <<args, yielded, polls, last, vertices_count,
                   instances_count, errors, refused>>

\* one round of `for src in vertex_buffers.iter()`
ScanNext ==
    /\ pc = "scan"
    /\ LET r == Iterator_next(it)
       IN  /\ it' = r.it
           /\ last' = r.item
           /\ IF r.item = None
              THEN /\ pc' = "done"
                   /\ UNCHANGED <<yielded, vertices_count, instances_count, errors>>
              ELSE LET c == check_source(r.item[1], mode, vertices_count,
                                         instances_count, errors)
                   IN  /\ pc' = "scan"
                       /\ yielded' = Append(yielded, r.item[1])
                       /\ vertices_count' = c.vertices_count
                       /\ instances_count' = c.instances_count
                       /\ errors' = c.errors
    /\ UNCHANGED <<args, form, polls, mode, refused>>

\* next() called again on the exhausted iterator
Poll ==
    /\ pc = "done"
    /\ polls < MaxPolls
    /\ LET r == Iterator_next(it)
       IN  /\ it' = r.it
           /\ last' = r.item
           /\ yielded' = IF r.item = None THEN yielded
                         ELSE Append(yielded, r.item[1])
    /\ polls' = polls + 1
    /\ UNCHANGED <<args, form, pc, mode, vertices_count, instances_count,
                   errors, refused>>

\* tuples of up to seven sources, one of each implementer of
\* IntoVerticesSource in this module
Next ==
    \/ TakeBuilt(VertexBuffer("vertex_buffer", 0, 10, FALSE), MaxArity)
    \/ TakePerInstance("vertex_buffer2", 0, 12, MaxArity)
    \/ TakeEmptyVertex(12, MaxArity)
    \/ TakeEmptyInstance(5, MaxArity)
    \/ \E f \in {"bare", "tuple"} : Draw("NoIndices", f)
    \/ ScanNext
    \/ Poll

Spec == Init /\ [][Next]_vars

\* draw calls of up to DrawArity sources of lengths 5, 7, 10 and 12
NextDraw ==
    \/ \E b \in Buffers : TakeBuffer(b, DrawArity)
    \/ TakePerInstance("vertex_buffer", 0, 5, DrawArity)
    \/ \E len \in {10, 12} : TakeEmptyVertex(len, DrawArity)
    \/ \E len \in {5, 7} : TakeEmptyInstance(len, DrawArity)
    \/ \E m \in IndexModes, f \in {"bare", "tuple"} : Draw(m, f)
    \/ ScanNext
    \/ Poll

SpecDraw == Init /\ [][NextDraw]_vars

BuiltVariants ==
    {VertexBuffer(b, off, len, p) :
        b \in Buffers, off \in {0, 5}, len \in {5, 12}, p \in BOOLEAN}
    \cup {Marker(len, p) : len \in Lens, p \in BOOLEAN}

\* a draw call of one source, of every kind and with every bound
NextConv ==
    \/ \E b \in Buffers : TakeBuffer(b, 1)
    \/ \E b \in Buffers, a \in Bounds :
          \E e \in {x \in Bounds : a <= x} : TakeSlice(b, a, e, 1)
    \/ \E b \in Buffers, a \in Bounds :
          \E e \in {x \in Bounds : a <= x} : TakePerInstance(b, a, e, 1)
    \/ \E len \in Lens : TakeEmptyVertex(len, 1)
    \/ \E len \in Lens : TakeEmptyInstance(len, 1)
    \/ \E v \in BuiltVariants : TakeBuilt(v, 1)
    \/ \E m \in IndexModes, f \in {"bare", "tuple"} : Draw(m, f)
    \/ ScanNext
    \/ Poll

SpecConv == Init /\ [][NextConv]_vars

(***************************************************************************)
(* Properties                                                              *)
(***************************************************************************)

\* the draw call's sources, each converted on its own, left to right
Sources == [i \in 1..Len(args) |-> into_vertices_source(args[i])]

Kinds == {args[i].kind : i \in 1..Len(args)}

VertexMismatch(seq) ==
    \E i, j \in DOMAIN seq :
        /\ ~seq[i].per_instance
        /\ ~seq[j].per_instance
        /\ seq[i].len # seq[j].len

InstanceMismatch(seq) ==
    \E i, j \in DOMAIN seq :
        /\ seq[i].per_instance
        /\ seq[j].per_instance
        /\ seq[i].len # seq[j].len

PerVertexLens(seq) ==
    LET F[k \in 0..Len(seq)] ==
            IF k = 0 THEN <<>>
            ELSE IF seq[k].per_instance THEN F[k - 1]
            ELSE Append(F[k - 1], seq[k].len)
    IN  F[Len(seq)]

PerInstanceLens(seq) ==
    LET F[k \in 0..Len(seq)] ==
            IF k = 0 THEN <<>>
            ELSE IF seq[k].per_instance THEN Append(F[k - 1], seq[k].len)
            ELSE F[k - 1]
    IN  F[Len(seq)]

\* C1: iter on a tuple of n sources, 1 <= n <= 7, yields exactly n variants,
\* the i-th being into_vertices_source of the i-th element of the tuple:
\* nothing is dropped, duplicated or reordered.
C1_TupleOrder ==
    /\ Len(yielded) <= Len(args)
    /\ \A i \in 1..Len(yielded) : yielded[i] = into_vertices_source(args[i])
    /\ pc = "done" => Len(yielded) = Len(args) /\ Len(args) \in 1..MaxArity

C1_Witness ==
    /\ pc = "done"
    /\ form = "tuple"
    /\ Len(args) = MaxArity
    /\ Cardinality(Kinds) = 4
    /\ yielded = Sources

C4_AsStated ==
    (/\ pc = "done"
     /\ Len(PerInstanceLens(Sources)) >= 2
     /\ ~InstanceMismatch(Sources))
    => errors = {}

\* C4, amended: when the per-instance sources all have the same length,
\* InstancesCountMismatch is never raised; with indices the checks pass
\* whatever the per-vertex lengths, and without indices they pass exactly when
\* the per-vertex lengths agree as well.
C4_Amended ==
    (pc = "done" /\ ~InstanceMismatch(Sources)) =>
        /\ "InstancesCountMismatch" \notin errors
        /\ mode = "Indexed" => errors = {}
        /\ mode = "NoIndices" => (errors = {} <=> ~VertexMismatch(Sources))

C4_Witness ==
    /\ pc = "done"
    /\ PerInstanceLens(Sources) = <<5, 5>>
    /\ PerVertexLens(Sources) = <<10, 12>>
    /\ \/ mode = "Indexed" /\ errors = {}
       \/ mode = "NoIndices" /\ errors = {"VerticesSourcesLengthMismatch"}

\* C5: converting a PerInstance wrapper changes only the per-instance flag of
\* what its slice converts to: same buffer, same offset, same length; for a
\* whole buffer of N elements the result is offset 0, length N, per instance.
C5_PerInstance ==
    \A i \in 1..Len(args) :
        args[i].kind = "PerInstance" =>
            LET s == args[i].inner
                w == VertexBufferSlice_into_vertices_source(s)
                v == into_vertices_source(args[i])
            IN  /\ w.per_instance = FALSE
                /\ v.tag = "VertexBuffer"
                /\ v.buf = w.buf /\ v.off = w.off /\ v.len = w.len
                /\ v.per_instance = TRUE
                /\ (s.start = 0 /\ s.end = element_count(s.buf)) =>
                       v.off = 0 /\ v.len = element_count(s.buf)
                /\ i <= Len(yielded) => yielded[i] = v

C5_Witness ==
    /\ pc = "done"
    /\ args = <<PerInstance(BufferSlice("vertex_buffer", 0, 10))>>
    /\ yielded = <<[tag |-> "VertexBuffer", buf |-> "vertex_buffer",
                    off |-> 0, len |-> 10, per_instance |-> TRUE]>>

\* C6: conversion and iteration never abort: no conversion of a source of a
\* draw call reaches unreachable!(), the slice of a PerInstance wrapper always
\* converts to a per-vertex buffer variant, and iter always returns.
C6_NeverAborts ==
    /\ pc # "panicked"
    /\ \A i \in 1..Len(args) :
          /\ into_vertices_source(args[i]) # Unreachable
          /\ args[i].kind = "PerInstance" =>
                LET w == VertexBufferSlice_into_vertices_source(args[i].inner)
                IN  w.tag = "VertexBuffer" /\ w.per_instance = FALSE
    /\ \A i \in 1..Len(yielded) : yielded[i] # Unreachable

C6_Witness ==
    /\ pc = "done"
    /\ Len(args) = MaxArity
    /\ Kinds = {"VerticesSource", "EmptyVertexAttributes",
                "EmptyInstanceAttributes", "PerInstance"}
    /\ Len(yielded) = MaxArity

\* C7: EmptyVertexAttributes{len} converts to Marker{len, per vertex} and
\* EmptyInstanceAttributes{len} to Marker{len, per instance}; a marker is
\* checked by its len alone, and a draw call without indices whose only source
\* is EmptyVertexAttributes{len} passes with len as its vertex count.
C7_Markers ==
    /\ \A i \in 1..Len(args) :
          /\ args[i].kind = "EmptyVertexAttributes" =>
                LET v == into_vertices_source(args[i])
                IN  /\ v.tag = "Marker" /\ v.len = args[i].len
                    /\ v.per_instance = FALSE
                    /\ i <= Len(yielded) => yielded[i] = v
          /\ args[i].kind = "EmptyInstanceAttributes" =>
                LET v == into_vertices_source(args[i])
                IN  /\ v.tag = "Marker" /\ v.len = args[i].len
                    /\ v.per_instance = TRUE
                    /\ i <= Len(yielded) => yielded[i] = v
    /\ (/\ pc = "done" /\ mode = "NoIndices" /\ Len(args) = 1
        /\ args[1].kind = "EmptyVertexAttributes")
       => /\ errors = {}
          /\ vertices_count = Some(args[1].len)
          /\ instances_count = None
    /\ (pc = "done" /\ mode = "NoIndices" /\ errors = {}) =>
          \A i \in 1..Len(yielded) :
              (yielded[i].tag = "Marker" /\ ~yielded[i].per_instance) =>
                  vertices_count = Some(yielded[i].len)

C7_Witness ==
    /\ pc = "done"
    /\ mode = "NoIndices"
    /\ args = <<EmptyVertexAttributes(12)>>
    /\ yielded = <<[tag |-> "Marker", len |-> 12, per_instance |-> FALSE]>>
    /\ errors = {}
    /\ vertices_count = Some(12)

InBuffer(v) == v.off + v.len <= element_count(v.buf)

\* C8 as stated, its last part: every buffer-backed variant that reaches the
\* iteration lies within its buffer, offset + length <= N.
C8_AsStated ==
    \A i \in 1..Len(yielded) :
        yielded[i].tag = "VertexBuffer" => InBuffer(yielded[i])

\* C8, amended: a whole buffer of N elements converts to offset 0, length N,
\* per vertex, and a slice [a, b) with 0 <= a <= b <= N to offset a, length
\* b - a, per vertex; slice refuses b > N and no source comes of that request;
\* so every buffer-backed variant converted from a buffer, a slice or a
\* PerInstance wrapper lies within its buffer (a VerticesSource that the
\* caller built itself is passed on as it is, whatever its offset and length).
C8_Amended ==
    /\ \A i \in 1..Len(args) :
          LET x == args[i]
              v == into_vertices_source(x)
          IN  /\ x.kind = "VertexBufferRef" =>
                    /\ v.tag = "VertexBuffer" /\ v.buf = x.buf
                    /\ v.off = 0 /\ v.len = element_count(x.buf)
                    /\ v.per_instance = FALSE
              /\ x.kind = "VertexBufferSlice" =>
                    /\ 0 <= x.start /\ x.start <= x.end
                    /\ x.end <= element_count(x.buf)
                    /\ v.tag = "VertexBuffer" /\ v.buf = x.buf
                    /\ v.off = x.start /\ v.len = x.end - x.start
                    /\ v.per_instance = FALSE
              /\ x.kind = "PerInstance" =>
                    x.inner.end <= element_count(x.inner.buf)
              /\ (x.kind # "VerticesSource" /\ v.tag = "VertexBuffer") =>
                    /\ InBuffer(v)
                    /\ i <= Len(yielded) => yielded[i] = v
    /\ refused # None =>
          LET r == refused[1]
          IN  /\ r.end > element_count(r.buf)
              /\ slice(r.buf, r.start, r.end) = None
              /\ \A i \in 1..Len(args) :
                    /\ args[i] # BufferSlice(r.buf, r.start, r.end)
                    /\ args[i] # PerInstance(BufferSlice(r.buf, r.start, r.end))

C8_Witness ==
    /\ pc = "done"
    /\ refused = Some([buf |-> "vertex_buffer2", start |-> 5, end |-> 14])
    /\ args = <<BufferSlice("vertex_buffer2", 5, 12)>>
    /\ yielded = <<[tag |-> "VertexBuffer", buf |-> "vertex_buffer2",
                    off |-> 5, len |-> 7, per_instance |-> FALSE]>>

\* C9: the sequence is finite and one-shot: with n sources, the first n calls
\* of next each yield one variant and every later call yields None, leaving
\* the iterator as it is; nothing is yielded twice.
C9_OneShot ==
    pc \in {"scan", "done"} =>
        /\ Len(yielded) <= Len(args)
        /\ Iterator_next(it).item = None <=> Len(yielded) = Len(args)
        /\ pc = "done" =>
              /\ last = None
              /\ Len(yielded) = Len(args)
              /\ Iterator_next(it).it = it

C9_Witness ==
    /\ pc = "done"
    /\ polls = MaxPolls
    /\ polls >= 2
    /\ last = None
    /\ Len(args) = MaxArity
    /\ Len(yielded) = MaxArity

\* iterator i yields v and then None
YieldsOnly(i, v) ==
    LET r1 == Iterator_next(i)
        r2 == Iterator_next(r1.it)
    IN  r1.item = Some(v) /\ r2.item = None

\* C10: converting a VerticesSource is the identity, so conversion is
\* idempotent, and a value x, the tuple (x,) and the converted
\* x.into_vertices_source() all iterate to the same sequence of one variant;
\* a per-instance flag is never reset.
C10_Identity ==
    /\ \A i \in 1..Len(args) :
          LET x == args[i]
              v == into_vertices_source(x)
          IN  /\ x.kind = "VerticesSource" =>
                    /\ v = x.v
                    /\ i <= Len(yielded) => yielded[i] = x.v
              /\ into_vertices_source(Built(v)) = v
              /\ YieldsOnly(single_iter(x), v)
              /\ YieldsOnly(tuple_iter(<<x>>), v)
              /\ YieldsOnly(single_iter(Built(v)), v)
              /\ YieldsOnly(tuple_iter(<<Built(v)>>), v)
    /\ (pc = "done" /\ Len(args) = 1) =>
          yielded = <<into_vertices_source(args[1])>>

C10_Witness ==
    /\ pc = "done"
    /\ form = "bare"
    /\ Len(args) = 1
    /\ args[1].kind = "VerticesSource"
    /\ args[1].v.tag = "VertexBuffer"
    /\ args[1].v.per_instance
    /\ yielded = <<args[1].v>>

====
